---- MODULE Spec2Model ----
(***************************************************************************)
(* Broker integration and trade reconciliation of FXTrade_Dashboard.       *)
(*                                                                         *)
(*   Spec      the reconciliation pass sync_trades (routers/trades.py)     *)
(*             over the record shapes MT5Service.get_positions/get_deals   *)
(*             deliver (services/mt5_service.py), against the trade_logs   *)
(*             table (models.py).                                          *)
(*   SpecConn  MT5Service.initialize / get_deals / get_positions and the   *)
(*             single-thread executor behind _run_mt5, with concurrent     *)
(*             coroutines on the event loop.                               *)
(*   SpecPasses  concurrent requests to sync_trades on the event loop.     *)
(*   SpecGw    the gateway methods of MT5Service and shutdown, one caller, *)
(*             native calls that may return late or never; FairGw adds the *)
(*             fairness of the event loop and of the clock.                *)
(*   SpecProv  MT5ServiceProvider.get_service: connect, venue check,       *)
(*             auto-launch from the known install paths.                   *)
(*   SpecSym   MT5Service.initialize after the native connect: the symbol  *)
(*             selection ensure_symbol against the terminal's instruments. *)
(*   SpecLedger  the handlers of the trades router (create_trade,          *)
(*             update_trade, delete_trade, sync_trades) on one ledger.     *)
(*   SpecProxy  concurrent coroutines calling the shared ServiceProxy.     *)
(*                                                                         *)
(* Times are counted in units of 30 seconds, money in integer units.       *)
(***************************************************************************)
EXTENDS Integers, Sequences, FiniteSets, TLC

VARIABLES
    \* ---- reconciliation (Spec) ----
    term,       \* what the terminal's native positions_get / history_deals_get return
    budget,     \* records the terminal may still produce (bounds the exploration)
    db,         \* committed rows of trade_logs, keyed by trade_id
    sess,       \* rows as the pass's AsyncSession sees them (db + pending writes)
    pc,         \* position of sync_trades: idle, positions, fetch_deals, deals, commit
    positions,  \* list returned by mt5_service.get_positions()
    deals,      \* list returned by mt5_service.get_deals()
    idx,        \* loop index of the for-loop in progress
    now,        \* wall clock, as last read by datetime.now()
    rerun,      \* the pass in progress runs against the snapshot and the ledger the
                \* previous committed pass left
    resp,       \* HTTP status of the last finished pass (0 before any)
    \* ---- connection and lane (SpecConn) ----
    connected,  \* MT5Service.connected
    lane,       \* work queue of _mt5_executor, oldest first
    running,    \* the native call the executor's only thread is in, or NoCall
    direct,     \* the native call the event-loop thread is in, or NoCall
    cpc,        \* per caller: position in its coroutine
    cres,       \* per caller: result of the native call it awaited
    clock,      \* wall clock of the connection model
    failedAt,   \* time of the last failed initialize(), or None
    nconnect,   \* number of native mt5.initialize calls started
    submitted,  \* history: every call handed to the executor, in submission order
    started,    \* history: every call the executor thread started, in start order
    finished,   \* history: every call the executor thread finished, in finish order
    \* ---- concurrent sync requests (SpecPasses) ----
    req,        \* per request: where its sync_trades coroutine stands
    \* ---- gateway methods (SpecGw, FairGw) ----
    gconnected, \* MT5Service.connected
    libInit,    \* the native library holds a connection: mt5.initialize succeeded
    gq,         \* work queue of _mt5_executor, oldest first
    grun,       \* the work item the executor's only thread is in, or NoWork
    gcall,      \* the caller's coroutine: method, place, time waited at the await
    gfut,       \* the future the caller awaits: none, pending, or the call's result
    gret,       \* what the last gateway method returned to the caller
    ghist,      \* history: the last two methods that returned, oldest first
    \* ---- service provider (SpecProv) ----
    penv,       \* the machine: terminals installed at the known paths, terminals
                \* a path-less mt5.initialize() can attach to
    prov,       \* position of MT5ServiceProvider.get_service, its path, its polls
    psession,   \* the terminal the mt5 library is connected to: none, oanda, other
    preal,      \* real_service.connected
    pservice,   \* MT5ServiceProvider.service: none, or the adopted real service
    pret,       \* how get_service last ended: none, the real service, or raised
    pconnect,   \* what real_service.initialize() came to in this get_service: none,
                \* ok, failed
    \* ---- symbol selection (SpecSym) ----
    instruments, \* what mt5.symbols_get() returns: the terminal's instrument names
    selectable, \* the names mt5.symbol_select(name, True) succeeds for
    msymbol,    \* MT5Service.symbol
    mconnected, \* MT5Service.connected
    mat,        \* initialize(): new, connected (native connect done), returned, timedout
    \* ---- trades router (SpecLedger) ----
    ledger,     \* committed rows of trade_logs, keyed by trade_id
    nuuid,      \* uuid4 values drawn so far
    npass,      \* sync passes run so far
    lresp,      \* HTTP status of the last request to the router (0 before any)
    synced,     \* history: trade_ids a sync pass has created or updated
    lreq,       \* history: the last request: handler, trade_id, fetched snapshot
    \* ---- shared proxy (SpecProxy) ----
    ximpl,      \* ServiceProxy._impl: 0 for None, or the MT5Service instance
    xservice,   \* MT5ServiceProvider.service: 0 for None, or the instance
    xtask,      \* per coroutine: the proxy method it is in, its place, its result
    xinst       \* MT5Service instances constructed so far

syncVars == <<term, budget, db, sess, pc, positions, deals, idx, now, rerun, resp>>
connVars == <<connected, lane, running, direct, cpc, cres, clock, failedAt,
              nconnect, submitted, started, finished>>
passVars == <<req>>
gwVars == <<gconnected, libInit, gq, grun, gcall, gfut, gret, ghist>>
provVars == <<penv, prov, psession, preal, pservice, pret, pconnect>>
symVars == <<instruments, selectable, msymbol, mconnected, mat>>
ledgerVars == <<ledger, nuuid, npass, lresp, synced, lreq>>
proxyVars == <<ximpl, xservice, xtask, xinst>>
vars == <<syncVars, connVars, passVars, gwVars, provVars, symVars, ledgerVars, proxyVars>>

\* What the actions of one specification leave alone of the others.
notSync == <<connVars, passVars, gwVars, provVars, symVars, ledgerVars, proxyVars>>
notConn == <<syncVars, passVars, gwVars, provVars, symVars, ledgerVars, proxyVars>>
notPass == <<syncVars, connVars, gwVars, provVars, symVars, ledgerVars, proxyVars>>
notGw == <<syncVars, connVars, passVars, provVars, symVars, ledgerVars, proxyVars>>
notProv == <<syncVars, connVars, passVars, gwVars, symVars, ledgerVars, proxyVars>>
notSym == <<syncVars, connVars, passVars, gwVars, provVars, ledgerVars, proxyVars>>
notLedger == <<syncVars, connVars, passVars, gwVars, provVars, symVars, proxyVars>>
notProxy == <<syncVars, connVars, passVars, gwVars, provVars, symVars, ledgerVars>>

\* ------------------------------------------------------------------ bounds
MaxId == 2          \* broker position identifiers / position tickets 1..MaxId
MaxPositions == 1   \* open positions in one snapshot
MaxDeals == 3       \* deals in one fetched batch
MaxVolume == 1      \* volumes 0..MaxVolume
MaxTime == 2        \* broker times 0..MaxTime
MaxElapsed == 1     \* the clock runs from MaxTime to MaxTime + MaxElapsed
MaxRecords == 3     \* records the terminal produces over a run

\* Python's None in an integer-valued place, and in a string-valued place.
None == -999
NoneStr == "<None>"

\* str(n)
Str(n) == ToString(n)

\* dict.get(key): the value, or None when the dict has no such key.
Get(d, key) == IF key \in DOMAIN d THEN d[key] ELSE None

\* int(timedelta.total_seconds() / 60) for a difference of d time units:
\* int() truncates toward zero.
Minutes(d) == IF d >= 0 THEN (d * 30) \div 60 ELSE -(((-d) * 30) \div 60)

\* ------------------------------------------------------- terminal records
\* A TradePosition as mt5.positions_get returns it and pos._asdict() keys it:
\* it has 'ticket' and 'identifier', and no 'position_id'.
PositionRecord(ticket, identifier, volume, time) ==
    [ticket |-> ticket, time |-> time, type |-> identifier % 2,
     identifier |-> identifier, volume |-> volume, price_open |-> 150 + ticket,
     swap |-> -1, profit |-> 5, symbol |-> "USDJPY"]

\* A TradeDeal as mt5.history_deals_get returns it and deal._asdict() keys it.
\* entry: 0 = DEAL_ENTRY_IN, 1 = DEAL_ENTRY_OUT. A deal is immutable once the broker
\* recorded it: its ticket stands for its content, its price and profit for its ticket.
DealRecord(position_id, entry, volume, time) ==
    LET ticket == 10 + (((position_id - 1) * 2 + entry) * (MaxVolume + 1) + volume)
                          * (MaxTime + 1) + time
    IN  [ticket |-> ticket, time |-> time, type |-> (position_id + entry) % 2,
         entry |-> entry, position_id |-> position_id, volume |-> volume,
         price |-> 100 + ticket, commission |-> -2, swap |-> -1, profit |-> ticket,
         symbol |-> "USDJPY"]

NativePositions ==
    {PositionRecord(t, i, v, tm) :
        t \in 1..MaxId, i \in 1..MaxId, v \in 0..MaxVolume, tm \in 0..MaxTime}

NativeDeals ==
    {DealRecord(p, e, v, tm) :
        p \in 1..MaxId, e \in {0, 1}, v \in 0..MaxVolume, tm \in 0..MaxTime}

\* Open positions of one terminal state: distinct position tickets.
PositionLists ==
    UNION {{ps \in [1..n -> NativePositions] :
                \A i, j \in 1..n : i # j => ps[i].ticket # ps[j].ticket} :
           n \in 0..MaxPositions}

\* A fetched batch: distinct deals, in any order.
DealLists(n) ==
    {ds \in [1..n -> NativeDeals] : \A i, j \in 1..n : i # j => ds[i] # ds[j]}

\* datetime.fromtimestamp(t): epoch seconds to a datetime of the same instant.
FromTimestamp(t) == t

\* MT5Service.get_positions on a connected session: each record as a dict.
get_positions(native) ==
    [i \in DOMAIN native |-> [native[i] EXCEPT !.time = FromTimestamp(@)]]

\* MT5Service.get_deals on a connected session: each record as a dict.
get_deals(native) ==
    [i \in DOMAIN native |-> [native[i] EXCEPT !.time = FromTimestamp(@)]]

\* ------------------------------------------------------------ the ledger
\* TradeLog(trade_id=...): a new row; symbol takes its column default on insert.
\* The columns sync_trades never writes (confidence, evaluation, lessons,
\* created_at) are left out.
TradeLog(trade_id) ==
    [trade_id |-> trade_id, position_id |-> NoneStr, entry_ticket |-> NoneStr,
     exit_ticket |-> NoneStr, timestamp |-> None, symbol |-> "USDJPY",
     direction |-> NoneStr, entry_price |-> None, exit_price |-> None,
     position_size |-> None, profit_loss_pips |-> None,
     profit_loss_amount |-> None, trade_duration_minutes |-> None]

\* select(TradeLog).where(trade_id == id) ... scalar(), or the new row.
RowOrNew(led, id) == IF id \in DOMAIN led THEN led[id] ELSE TradeLog(id)

Put(led, row) ==
    [k \in DOMAIN led \cup {row.trade_id} |-> IF k = row.trade_id THEN row ELSE led[k]]

Direction(type) == IF type = 0 THEN "LONG" ELSE "SHORT"

StrOrNone(v) == IF v # None THEN Str(v) ELSE NoneStr

\* trade_id of an open position: lines 253-255.
PositionTradeId(pos) ==
    LET position_id == Get(pos, "position_id")
        ticket == Get(pos, "ticket")
    IN  Str(IF position_id # None THEN position_id ELSE ticket)

\* trade_id of a deal: lines 306-307.
DealTradeId(deal) ==
    LET position_id == Get(deal, "position_id")
    IN  Str(IF position_id # None THEN position_id ELSE Get(deal, "ticket"))

\* One iteration of the open-position loop, the clock reading t.
ApplyPosition(led, pos, t) ==
    LET position_id == Get(pos, "position_id")
        ticket == Get(pos, "ticket")
        trade_id == PositionTradeId(pos)
        volume == Get(pos, "volume")
        obj == RowOrNew(led, trade_id)
    IN  IF volume = None \/ volume = 0
        THEN led
        ELSE Put(led, [obj EXCEPT
                !.timestamp = pos.time,
                !.symbol = pos.symbol,
                !.direction = Direction(pos.type),
                !.entry_price = pos.price_open,
                !.exit_price = None,
                !.position_size = volume,
                !.profit_loss_amount = pos.profit + pos.swap,
                !.profit_loss_pips = 0,
                !.trade_duration_minutes = Minutes(t - pos.time),
                !.position_id = StrOrNone(position_id),
                !.entry_ticket = StrOrNone(ticket)])

\* EntryDealIndex without the search of the batch: an exit deal that meets no row
\* is always skipped.
EntryDealIndex_NoSearch(batch, position_id) == 0

\* next(d for d in deals if d.position_id == position_id and d.entry == 0, None):
\* the place of the first such deal, or 0.
EntryDealIndex(batch, position_id) ==
    LET hits == {i \in DOMAIN batch :
                    Get(batch[i], "position_id") = position_id
                    /\ Get(batch[i], "entry") = 0}
    IN  IF hits = {} THEN 0 ELSE CHOOSE i \in hits : \A j \in hits : i <= j

\* The close of a row by an exit deal: lines 360-368.
CloseRow(obj, deal) ==
    LET closed == [obj EXCEPT
            !.exit_price = deal.price,
            !.profit_loss_amount = deal.profit + deal.swap + deal.commission,
            !.exit_ticket = IF Get(deal, "ticket") # None
                            THEN Str(deal.ticket) ELSE obj.exit_ticket]
    IN  IF obj.timestamp # None /\ obj.timestamp < deal.time
        THEN [closed EXCEPT !.trade_duration_minutes = Minutes(deal.time - obj.timestamp)]
        ELSE closed

\* The row written from an entry deal: lines 324-329 and 349-355.
EntryRow(obj, deal, volume) ==
    [obj EXCEPT
        !.timestamp = deal.time,
        !.direction = Direction(deal.type),
        !.entry_price = deal.price,
        !.position_size = volume,
        !.entry_ticket = Str(Get(deal, "ticket")),
        !.position_id = StrOrNone(Get(deal, "position_id"))]

\* One iteration of the deal loop over batch: lines 302-370.
ApplyDeal(led, deal, batch) ==
    LET position_id == Get(deal, "position_id")
        trade_id == DealTradeId(deal)
        found == trade_id \in DOMAIN led
        volume == Get(deal, "volume")
        e == EntryDealIndex(batch, position_id)
    IN  CASE Get(deal, "entry") = 0 ->
               IF volume = None \/ volume = 0
               THEN led
               ELSE Put(led, EntryRow(RowOrNew(led, trade_id), deal, volume))
          [] Get(deal, "entry") \in {1, 2} ->
               IF found
               THEN Put(led, CloseRow(led[trade_id], deal))
               ELSE IF e = 0
                    THEN led
                    ELSE IF Get(batch[e], "volume") = None \/ Get(batch[e], "volume") = 0
                         THEN led
                         ELSE Put(led, CloseRow(EntryRow(TradeLog(trade_id), batch[e],
                                                         Get(batch[e], "volume")), deal))
          [] OTHER -> led

\* The deal loop over a whole batch, from place i on.
RECURSIVE SyncDeals(_, _, _)
SyncDeals(led, batch, i) ==
    IF i > Len(batch) THEN led
    ELSE SyncDeals(ApplyDeal(led, batch[i], batch), batch, i + 1)

Reverse(s) == [i \in 1..Len(s) |-> s[Len(s) + 1 - i]]

\* ----------------------------------------------------- sync_trades, by step
\* Line 245, 297: the status of the HTTPException raised when a fetch returned None.
UnavailableStatus == 503

\* Lines 377-379: `except Exception` catches whatever the try block raised, the
\* HTTPException of lines 245 and 297 included (status its status_code, None for
\* any other exception), and raises HTTPException(status_code=500) in its place.
ExceptHandler(status) == 500

Callers == {"a", "b"}

\* Two requests to POST /sync in flight on the event loop.
Requests == {"r1", "r2"}

\* A request not in the handler, its last response being status.
Outside(status) == [at |-> "idle", idx |-> 1, npos |-> 0, ndeals |-> 0, resp |-> status]

InitPasses == req = [r \in Requests |-> Outside(0)]

\* No native call: the value of running and direct when the thread is in none.
NoCall == [id |-> 0, fn |-> "none", by |-> "none"]

Ready == [op |-> "none", at |-> "ready", id |-> 0, since |-> 0]

InitConn ==
    /\ connected = FALSE
    /\ lane = <<>>
    /\ running = NoCall
    /\ direct = NoCall
    /\ cpc = [c \in Callers |-> Ready]
    /\ cres = [c \in Callers |-> [fut |-> "none", ret |-> "none"]]
    /\ clock = 0
    /\ failedAt = None
    /\ nconnect = 0
    /\ submitted = <<>>
    /\ started = <<>>
    /\ finished = <<>>

InitSync ==
    /\ term = [positions |-> <<>>, deals |-> <<>>]
    /\ budget = MaxRecords
    /\ db = <<>>
    /\ sess = <<>>
    /\ pc = "idle"
    /\ positions = <<>>
    /\ deals = <<>>
    /\ idx = 1
    /\ now = MaxTime
    /\ rerun = FALSE
    /\ resp = 0

\* No work item: the value of grun when the executor's thread is idle.
NoWork == [fn |-> "none", awaited |-> FALSE]

\* The caller is in no gateway method.
GwReady == [op |-> "none", at |-> "ready", waited |-> 0, failed |-> FALSE]

InitGw ==
    /\ gconnected = FALSE
    /\ libInit = FALSE
    /\ gq = <<>>
    /\ grun = NoWork
    /\ gcall = GwReady
    /\ gfut = "none"
    /\ gret = "none"
    /\ ghist = <<"none", "none">>

\* get_service at place at, the auto-launch loop at path i, polls polls done.
At(at, i, polls) == [at |-> at, i |-> i, polls |-> polls]

InitProv ==
    /\ penv = [installed |-> {}, attachable |-> {}]
    /\ prov = At("new", 1, 0)
    /\ psession = "none"
    /\ preal = FALSE
    /\ pservice = "none"
    /\ pret = "none"
    /\ pconnect = "none"

\* A name, as the sequence of its characters.
USDJPY == <<"U", "S", "D", "J", "P", "Y">>

\* MT5Service.__init__ (lines 20-22); the terminal is not looked at yet.
InitSym ==
    /\ instruments = <<>>
    /\ selectable = {}
    /\ msymbol = USDJPY
    /\ mconnected = FALSE
    /\ mat = "new"

\* A request to the trades router: its handler, the trade_id of its path, and
\* the snapshot a sync pass fetched.
Request(op, id, ps, ds) == [op |-> op, id |-> id, positions |-> ps, deals |-> ds]

\* The trade_logs table as create_all leaves it.
InitLedger ==
    /\ ledger = <<>>
    /\ nuuid = 0
    /\ npass = 0
    /\ lresp = 0
    /\ synced = {}
    /\ lreq = Request("none", NoneStr, <<>>, <<>>)

\* The coroutines that call the shared proxy: the scheduled collection and a
\* request handler.
Tasks == {"collection", "request"}

\* A coroutine at place at of the proxy attribute op it called; inst is the
\* MT5Service its get_service constructed, ret what its last call came to.
Task(op, at, inst, ret) == [op |-> op, at |-> at, inst |-> inst, ret |-> ret]

\* ServiceProxy.__init__ and MT5ServiceProvider.__init__: lines 405-407, 307-309.
InitProxy ==
    /\ ximpl = 0
    /\ xservice = 0
    /\ xtask = [t \in Tasks |-> Task("none", "idle", 0, "none")]
    /\ xinst = 0

Init ==
    /\ InitSync /\ InitConn /\ InitPasses /\ InitGw /\ InitProv
    /\ InitSym /\ InitLedger /\ InitProxy

\* The broker's side: positions open and close, deals are recorded.
TerminalUpdate ==
    /\ pc = "idle"
    /\ \E ps \in PositionLists, n \in 0..MaxDeals :
         /\ 0 < Len(ps) + n
         /\ Len(ps) + n <= budget
         /\ \E ds \in DealLists(n) :
              /\ term' = [positions |-> ps, deals |-> ds]
              /\ budget' = budget - (Len(ps) + n)
    /\ rerun' = FALSE
    /\ UNCHANGED <<db, sess, pc, positions, deals, idx, now, resp, notSync>>

\* StartPass closing, at price 0, every open row whose position is no longer in the
\* snapshot.
StartPass_AutoClose ==
    /\ pc = "idle"
    /\ positions' = get_positions(term.positions)
    /\ sess' = [id \in DOMAIN db |->
                  IF /\ db[id].exit_price = None
                     /\ \A i \in DOMAIN term.positions :
                           PositionTradeId(term.positions[i]) # id
                  THEN [db[id] EXCEPT !.exit_price = 0]
                  ELSE db[id]]
    /\ deals' = <<>>
    /\ idx' = 1
    /\ pc' = "positions"
    /\ UNCHANGED <<term, budget, db, now, rerun, resp, notSync>>

\* Lines 243-249: the position fetch returned a list.
StartPass ==
    /\ pc = "idle"
    /\ positions' = get_positions(term.positions)
    /\ sess' = db
    /\ deals' = <<>>
    /\ idx' = 1
    /\ pc' = "positions"
    /\ UNCHANGED <<term, budget, db, now, rerun, resp, notSync>>

\* Lines 244-245 and 377-379: get_positions() returned None; the 503 raised inside
\* the try block is caught by `except Exception` and raised again as a 500.
PositionsUnavailable ==
    /\ pc = "idle"
    /\ resp' = ExceptHandler(UnavailableStatus)
    /\ rerun' = FALSE
    /\ UNCHANGED <<term, budget, db, sess, pc, positions, deals, idx, now, notSync>>

\* Lines 252-288: one open position; datetime.now() is read at line 284.
ProcessPosition ==
    /\ pc = "positions"
    /\ idx <= Len(positions)
    /\ \E t \in now..(MaxTime + MaxElapsed) :
         /\ now' = t
         /\ sess' = ApplyPosition(sess, positions[idx], t)
    /\ idx' = idx + 1
    /\ UNCHANGED <<term, budget, db, pc, positions, deals, rerun, resp, notSync>>

\* Lines 291-299: the deal fetch returned a list.
FetchDeals ==
    /\ pc = "positions"
    /\ idx > Len(positions)
    /\ deals' = get_deals(term.deals)
    /\ idx' = 1
    /\ pc' = "deals"
    /\ UNCHANGED <<term, budget, db, sess, positions, now, rerun, resp, notSync>>

\* DealsUnavailable committing what the pass had written before the fetch failed.
DealsUnavailable_KeepsWrites ==
    /\ pc = "positions"
    /\ idx > Len(positions)
    /\ resp' = ExceptHandler(UnavailableStatus)
    /\ db' = sess
    /\ pc' = "idle"
    /\ idx' = 1
    /\ positions' = <<>>
    /\ rerun' = FALSE
    /\ UNCHANGED <<term, budget, sess, deals, now, notSync>>

\* Lines 296-297 and 377-379: get_deals() returned None; nothing is committed and
\* the session is closed with its pending writes.
DealsUnavailable ==
    /\ pc = "positions"
    /\ idx > Len(positions)
    /\ resp' = ExceptHandler(UnavailableStatus)
    /\ sess' = db
    /\ pc' = "idle"
    /\ idx' = 1
    /\ positions' = <<>>
    /\ rerun' = FALSE
    /\ UNCHANGED <<term, budget, db, deals, now, notSync>>

\* Lines 302-370: one deal.
ProcessDeal ==
    /\ pc = "deals"
    /\ idx <= Len(deals)
    /\ sess' = ApplyDeal(sess, deals[idx], deals)
    /\ idx' = idx + 1
    /\ UNCHANGED <<term, budget, db, pc, positions, deals, now, rerun, resp, notSync>>

\* The deal loop is over.
EndDeals ==
    /\ pc = "deals"
    /\ idx > Len(deals)
    /\ pc' = "commit"
    /\ UNCHANGED <<term, budget, db, sess, positions, deals, idx, now, rerun, resp, notSync>>

\* Lines 372-375: db.commit() and the response.
Commit ==
    /\ pc = "commit"
    /\ db' = sess
    /\ resp' = 200
    /\ pc' = "idle"
    /\ idx' = 1
    /\ rerun' = TRUE
    /\ UNCHANGED <<term, budget, sess, positions, deals, now, notSync>>

\* Lines 372, 377-379: db.commit() raises (the database is locked or gone); any
\* exception of the try block ends the request the same way. Nothing is committed.
CommitFails ==
    /\ pc = "commit"
    /\ resp' = ExceptHandler(None)
    /\ sess' = db
    /\ pc' = "idle"
    /\ idx' = 1
    /\ rerun' = FALSE
    /\ UNCHANGED <<term, budget, db, positions, deals, now, notSync>>

Next ==
    \/ TerminalUpdate
    \/ StartPass
    \/ PositionsUnavailable
    \/ ProcessPosition
    \/ FetchDeals
    \/ DealsUnavailable
    \/ ProcessDeal
    \/ EndDeals
    \/ Commit
    \/ CommitFails

Spec == Init /\ [][Next]_vars

\* ------------------------------------------- connection and lane, by step
MaxCalls == 5       \* native calls handed to the executor over a run
MaxClock == 60      \* the connection model's clock runs 0, 30, .. MaxClock seconds

InitTimeout == 30   \* wait_for(_run_mt5(mt5.initialize), timeout=30.0)
SymbolTimeout == 10 \* wait_for(_run_mt5(ensure_symbol, ...), timeout=10.0)
InfoTimeout == 5    \* wait_for(_run_mt5(mt5.terminal_info), timeout=5.0)
RetryInterval == 60 \* the retry interval the design gives the circuit breaker

\* What a native call can return.
Outcomes(fn) ==
    CASE fn = "mt5.initialize" -> {"true", "false"}
      [] fn \in {"mt5.history_deals_get", "mt5.positions_get"} -> {"list", "null"}
      [] OTHER -> {"value"}

\* The native call a gateway fetch makes.
NativeOf(op) ==
    IF op = "get_deals" THEN "mt5.history_deals_get" ELSE "mt5.positions_get"

\* LaneHead taking the newest item first.
LaneHead_Newest(q) == Len(q)

\* The place in the work queue the executor's thread takes its next item from:
\* ThreadPoolExecutor's queue is first in, first out.
LaneHead(q) == 1

\* The queue without the item a cancelled future stood for: a work item whose
\* future was cancelled before it started is never run.
Without(q, id) == SelectSeq(q, LAMBDA w : w.id # id)

Waiting(c, at) ==
    /\ direct = NoCall
    /\ cpc[c].at = at

\* _run_mt5(fn) awaited by c at label at: the work item joins queue q.
Submit(c, q, fn, op, at) ==
    LET id == Len(submitted) + 1
    IN  /\ Len(submitted) < MaxCalls
        /\ lane' = Append(q, [id |-> id, fn |-> fn, by |-> c])
        /\ submitted' = Append(submitted, id)
        /\ cpc' = [cpc EXCEPT ![c] = [op |-> op, at |-> at, id |-> id, since |-> clock]]
        /\ cres' = [cres EXCEPT ![c] = [fut |-> "pending", ret |-> "none"]]

Return(c, q, ret) ==
    /\ lane' = q
    /\ submitted' = submitted
    /\ cpc' = [cpc EXCEPT ![c] = Ready]
    /\ cres' = [cres EXCEPT ![c] = [fut |-> "none", ret |-> ret]]

\* initialize() returns False (lines 39-40, 43-44): to its caller, or into the
\* gateway fetch that called it, which returns None (lines 152-154, 183-185).
InitFalse(c, q) ==
    /\ connected' = FALSE
    /\ failedAt' = clock
    /\ Return(c, q, IF cpc[c].op = "initialize" THEN "false" ELSE "None")

\* initialize() returns True (line 95): to its caller, or into the gateway fetch,
\* which goes on to its native call (lines 162, 187).
InitTrue(c, q) ==
    IF cpc[c].op = "initialize"
    THEN Return(c, q, "true")
    ELSE Submit(c, q, NativeOf(cpc[c].op), cpc[c].op, "fetch")

\* MT5Service.initialize() is called: lines 24-35.
CallInitialize(c) ==
    /\ Waiting(c, "ready")
    /\ Submit(c, lane, "mt5.initialize", "initialize", "connect")
    /\ nconnect' = nconnect + 1
    /\ UNCHANGED <<connected, running, direct, clock, failedAt, started, finished, notConn>>

\* MT5Service.get_deals() / get_positions() is called: lines 148-162, 180-187.
CallFetch(c) ==
    /\ Waiting(c, "ready")
    /\ \E op \in {"get_deals", "get_positions"} :
         IF connected
         THEN /\ Submit(c, lane, NativeOf(op), op, "fetch")
              /\ nconnect' = nconnect
         ELSE /\ Submit(c, lane, "mt5.initialize", op, "connect")
              /\ nconnect' = nconnect + 1
    /\ UNCHANGED <<connected, running, direct, clock, failedAt, started, finished, notConn>>

\* Lines 37-38: mt5.initialize returned False; mt5.last_error() is called for the
\* log message, on the event-loop thread.
ConnectFailed(c) ==
    /\ Waiting(c, "connect")
    /\ cres[c].fut = "false"
    /\ direct' = [id |-> 0, fn |-> "mt5.last_error", by |-> c]
    /\ cpc' = [cpc EXCEPT ![c].at = "last_error"]
    /\ UNCHANGED <<connected, lane, running, cres, clock, failedAt, nconnect,
                   submitted, started, finished, notConn>>

\* Lines 164-166, 189-191: the native fetch returned None; mt5.last_error() is
\* called for the log message, on the event-loop thread.
FetchNull(c) ==
    /\ Waiting(c, "fetch")
    /\ cres[c].fut = "null"
    /\ direct' = [id |-> 0, fn |-> "mt5.last_error", by |-> c]
    /\ cpc' = [cpc EXCEPT ![c].at = "fetch_error"]
    /\ UNCHANGED <<connected, lane, running, cres, clock, failedAt, nconnect,
                   submitted, started, finished, notConn>>

\* mt5.last_error() returns; lines 39-40 (initialize returns False), 166 and 191
\* (the fetch returns an empty list).
DirectReturn(c) ==
    /\ direct.by = c
    /\ direct' = NoCall
    /\ IF cpc[c].at = "last_error"
       THEN InitFalse(c, lane)
       ELSE Return(c, lane, "empty") /\ UNCHANGED <<connected, failedAt>>
    /\ UNCHANGED <<running, clock, nconnect, started, finished, notConn>>

\* InitTimedOut ending the native call it stopped waiting for.
InitTimedOut_Kills(c) ==
    /\ Waiting(c, "connect")
    /\ cres[c].fut = "pending"
    /\ clock - cpc[c].since >= InitTimeout
    /\ InitFalse(c, Without(lane, cpc[c].id))
    /\ running' = IF running.id = cpc[c].id THEN NoCall ELSE running
    /\ UNCHANGED <<direct, clock, nconnect, started, finished, notConn>>

\* Lines 41-44: the wait for mt5.initialize timed out.
InitTimedOut(c) ==
    /\ Waiting(c, "connect")
    /\ cres[c].fut = "pending"
    /\ clock - cpc[c].since >= InitTimeout
    /\ InitFalse(c, Without(lane, cpc[c].id))
    /\ UNCHANGED <<running, direct, clock, nconnect, started, finished, notConn>>

\* Lines 79-83: mt5.initialize returned True; ensure_symbol goes to the executor.
ConnectOk(c) ==
    /\ Waiting(c, "connect")
    /\ cres[c].fut = "true"
    /\ Submit(c, lane, "ensure_symbol", cpc[c].op, "symbol")
    /\ UNCHANGED <<connected, running, direct, clock, failedAt, nconnect,
                   started, finished, notConn>>

\* Lines 80-90: ensure_symbol returned; connected is set, terminal_info is asked.
SymbolDone(c) ==
    /\ Waiting(c, "symbol")
    /\ cres[c].fut = "value"
    /\ connected' = TRUE
    /\ Submit(c, lane, "mt5.terminal_info", cpc[c].op, "info")
    /\ UNCHANGED <<running, direct, clock, failedAt, nconnect, started, finished, notConn>>

\* Lines 84-90: the wait for ensure_symbol timed out; initialize goes on.
SymbolTimedOut(c) ==
    /\ Waiting(c, "symbol")
    /\ cres[c].fut = "pending"
    /\ clock - cpc[c].since >= SymbolTimeout
    /\ connected' = TRUE
    /\ Submit(c, Without(lane, cpc[c].id), "mt5.terminal_info", cpc[c].op, "info")
    /\ UNCHANGED <<running, direct, clock, failedAt, nconnect, started, finished, notConn>>

\* Lines 90-95: terminal_info returned.
InfoDone(c) ==
    /\ Waiting(c, "info")
    /\ cres[c].fut = "value"
    /\ InitTrue(c, lane)
    /\ UNCHANGED <<connected, running, direct, clock, failedAt, nconnect,
                   started, finished, notConn>>

\* Lines 92-95: the wait for terminal_info timed out (caught, logged).
InfoTimedOut(c) ==
    /\ Waiting(c, "info")
    /\ cres[c].fut = "pending"
    /\ clock - cpc[c].since >= InfoTimeout
    /\ InitTrue(c, Without(lane, cpc[c].id))
    /\ UNCHANGED <<connected, running, direct, clock, failedAt, nconnect,
                   started, finished, notConn>>

\* Lines 168-178, 193-199: the native fetch returned records.
FetchDone(c) ==
    /\ Waiting(c, "fetch")
    /\ cres[c].fut = "list"
    /\ Return(c, lane, "list")
    /\ UNCHANGED <<connected, running, direct, clock, failedAt, nconnect,
                   started, finished, notConn>>

\* The executor's only thread takes the next work item and enters the native call.
WorkerStart ==
    /\ running = NoCall
    /\ lane # <<>>
    /\ LET k == LaneHead(lane)
       IN  /\ running' = lane[k]
           /\ lane' = [i \in 1..(Len(lane) - 1) |-> IF i < k THEN lane[i] ELSE lane[i + 1]]
           /\ started' = Append(started, lane[k].id)
    /\ UNCHANGED <<connected, direct, cpc, cres, clock, failedAt, nconnect,
                   submitted, finished, notConn>>

\* The native call returns; its future is resolved if a caller still awaits it.
WorkerFinish ==
    /\ running # NoCall
    /\ \E out \in Outcomes(running.fn) :
         cres' = [c \in Callers |->
                    IF cpc[c].id = running.id /\ cres[c].fut = "pending"
                    THEN [cres[c] EXCEPT !.fut = out] ELSE cres[c]]
    /\ finished' = Append(finished, running.id)
    /\ running' = NoCall
    /\ UNCHANGED <<connected, lane, direct, cpc, clock, failedAt, nconnect,
                   submitted, started, notConn>>

\* Time passes: while the executor's thread is in a native call or has nothing to
\* do, and the event loop has no coroutine to resume. An idle thread takes a queued
\* item, and the loop resumes a coroutine whose future is resolved, at once.
Tick ==
    /\ clock + 30 <= MaxClock
    /\ ~(running = NoCall /\ lane # <<>>)
    /\ direct = NoCall
    /\ \A c \in Callers : cres[c].fut \in {"none", "pending"}
    /\ clock' = clock + 30
    /\ UNCHANGED <<connected, lane, running, direct, cpc, cres, failedAt, nconnect,
                   submitted, started, finished, notConn>>

NextConn ==
    \/ \E c \in Callers : CallInitialize(c)
    \/ \E c \in Callers : CallFetch(c)
    \/ \E c \in Callers : ConnectFailed(c)
    \/ \E c \in Callers : FetchNull(c)
    \/ \E c \in Callers : DirectReturn(c)
    \/ \E c \in Callers : InitTimedOut(c)
    \/ \E c \in Callers : ConnectOk(c)
    \/ \E c \in Callers : SymbolDone(c)
    \/ \E c \in Callers : SymbolTimedOut(c)
    \/ \E c \in Callers : InfoDone(c)
    \/ \E c \in Callers : InfoTimedOut(c)
    \/ \E c \in Callers : FetchDone(c)
    \/ WorkerStart
    \/ WorkerFinish
    \/ Tick

SpecConn == Init /\ [][NextConn]_vars

\* --------------------------------------- concurrent sync requests, by step
\* Every await of sync_trades hands the event loop to the other request: the
\* handler takes no lock. A request's records are counted, not kept.

\* Lines 231-243: the request enters the handler and awaits get_positions().
ReqStart(r) ==
    /\ req[r].at = "idle"
    /\ req' = [req EXCEPT ![r].at = "await_positions"]
    /\ UNCHANGED notPass

\* Lines 243-249: get_positions() returned a list.
ReqPositions(r) ==
    /\ req[r].at = "await_positions"
    /\ \E n \in 0..MaxPositions :
         req' = [req EXCEPT ![r].at = "positions", ![r].npos = n, ![r].idx = 1]
    /\ UNCHANGED notPass

\* Lines 244-245, 377-379: get_positions() returned None.
ReqPositionsUnavailable(r) ==
    /\ req[r].at = "await_positions"
    /\ req' = [req EXCEPT ![r] = Outside(ExceptHandler(UnavailableStatus))]
    /\ UNCHANGED notPass

\* Lines 252-288: one open position; the select of line 269 is awaited.
ReqPosition(r) ==
    /\ req[r].at = "positions"
    /\ req[r].idx <= req[r].npos
    /\ req' = [req EXCEPT ![r].idx = @ + 1]
    /\ UNCHANGED notPass

\* Lines 291-295: the position loop is over; get_deals() is awaited.
ReqFetchDeals(r) ==
    /\ req[r].at = "positions"
    /\ req[r].idx > req[r].npos
    /\ req' = [req EXCEPT ![r].at = "await_deals"]
    /\ UNCHANGED notPass

\* Lines 295-299: get_deals() returned a list.
ReqDeals(r) ==
    /\ req[r].at = "await_deals"
    /\ \E n \in 0..MaxDeals :
         req' = [req EXCEPT ![r].at = "deals", ![r].ndeals = n, ![r].idx = 1]
    /\ UNCHANGED notPass

\* Lines 296-297, 377-379: get_deals() returned None.
ReqDealsUnavailable(r) ==
    /\ req[r].at = "await_deals"
    /\ req' = [req EXCEPT ![r] = Outside(ExceptHandler(UnavailableStatus))]
    /\ UNCHANGED notPass

\* Lines 302-370: one deal; the select of line 309 is awaited.
ReqDeal(r) ==
    /\ req[r].at = "deals"
    /\ req[r].idx <= req[r].ndeals
    /\ req' = [req EXCEPT ![r].idx = @ + 1]
    /\ UNCHANGED notPass

\* Lines 372-375: the deal loop is over; db.commit() and the response.
ReqCommit(r) ==
    /\ req[r].at = "deals"
    /\ req[r].idx > req[r].ndeals
    /\ req' = [req EXCEPT ![r] = Outside(200)]
    /\ UNCHANGED notPass

NextPasses ==
    \/ \E r \in Requests : ReqStart(r)
    \/ \E r \in Requests : ReqPositions(r)
    \/ \E r \in Requests : ReqPositionsUnavailable(r)
    \/ \E r \in Requests : ReqPosition(r)
    \/ \E r \in Requests : ReqFetchDeals(r)
    \/ \E r \in Requests : ReqDeals(r)
    \/ \E r \in Requests : ReqDealsUnavailable(r)
    \/ \E r \in Requests : ReqDeal(r)
    \/ \E r \in Requests : ReqCommit(r)

SpecPasses == Init /\ [][NextPasses]_vars

\* ------------------------------------------- concurrent sync requests: claims
\* A pass is in progress: between the start of its position fetch and its commit.
InPass(r) == req[r].at # "idle"

\* C11: no two sync passes are in progress at once.
C11_SingleFlight ==
    \A r1, r2 \in Requests : (r1 # r2) => ~(InPass(r1) /\ InPass(r2))

\* ------------------------------------------------- gateway methods, by step
GatewayOps ==
    {"initialize", "get_current_price", "get_historical_data", "get_deals",
     "get_positions"}

\* The native call each gateway method makes once connected: lines 108, 139, 162, 187.
GwNative(op) ==
    CASE op = "get_current_price" -> "mt5.symbol_info_tick"
      [] op = "get_historical_data" -> "mt5.copy_rates_from_pos"
      [] op = "get_deals" -> "mt5.history_deals_get"
      [] OTHER -> "mt5.positions_get"

\* What a native call can return, the library connected or not: mt5.initialize
\* succeeds or fails; a data call returns None when the library has no connection.
GwOutcomes(fn, lib) ==
    CASE fn = "mt5.initialize" -> {"true", "false"}
      [] fn \in {"ensure_symbol", "mt5.terminal_info", "mt5.shutdown"} -> {"value"}
      [] OTHER -> IF lib THEN {"value", "null"} ELSE {"null"}

\* What a gateway method returns for the outcome of its native call:
\* lines 109-120, 140-146, 164-178, 189-199.
GwResult(op, out) ==
    CASE op = "get_current_price" -> IF out = "null" THEN "None" ELSE "tick"
      [] op = "get_historical_data" -> IF out = "null" THEN "empty_frame" ELSE "frame"
      [] OTHER -> IF out = "null" THEN "empty_list" ELSE "list"

\* _run_mt5(fn) is awaited at place at; q is the queue it joins.
GwSubmit(q, fn, at, failed) ==
    /\ gq' = Append(q, [fn |-> fn, awaited |-> TRUE])
    /\ gcall' = [gcall EXCEPT !.at = at, !.waited = 0, !.failed = failed]
    /\ gfut' = "pending"
    /\ gret' = gret
    /\ ghist' = ghist

\* The method returns ret to its caller.
GwReturn(q, ret) ==
    /\ gq' = q
    /\ gcall' = GwReady
    /\ gfut' = "none"
    /\ gret' = ret
    /\ ghist' = <<ghist[2], gcall.op>>

\* wait_for gave up on the awaited call: a queued work item is cancelled and never
\* runs, a running one goes on with nobody waiting for it.
GwCancelled(q) == SelectSeq(q, LAMBDA w : ~w.awaited)
GwAbandoned(w) == [w EXCEPT !.awaited = FALSE]

\* initialize() has returned ok inside method gcall.op, the queue being q:
\* initialize returns it; get_deals / get_positions return None on False (lines
\* 152-154, 183-185); get_current_price / get_historical_data drop the result
\* (lines 105-106, 124-125) and go on to their native call.
GwInitResult(ok, q) ==
    CASE gcall.op = "initialize" -> GwReturn(q, IF ok THEN "true" ELSE "false")
      [] gcall.op \in {"get_deals", "get_positions"} /\ ~ok -> GwReturn(q, "None")
      [] OTHER -> GwSubmit(q, GwNative(gcall.op), "native", ~ok)

\* A gateway method is called: lines 24-35, 105-108, 124-139, 150-162, 182-187.
GwCall ==
    /\ gcall.at = "ready"
    /\ \E op \in GatewayOps :
         IF op = "initialize" \/ ~gconnected
         THEN /\ gq' = Append(gq, [fn |-> "mt5.initialize", awaited |-> TRUE])
              /\ gcall' = [op |-> op, at |-> "connect", waited |-> 0, failed |-> FALSE]
         ELSE /\ gq' = Append(gq, [fn |-> GwNative(op), awaited |-> TRUE])
              /\ gcall' = [op |-> op, at |-> "native", waited |-> 0, failed |-> FALSE]
    /\ gfut' = "pending"
    /\ UNCHANGED <<gconnected, libInit, grun, gret, ghist, notGw>>

\* Lines 37-40: mt5.initialize returned False.
GwConnectFailed ==
    /\ gcall.at = "connect"
    /\ gfut = "false"
    /\ gconnected' = FALSE
    /\ GwInitResult(FALSE, gq)
    /\ UNCHANGED <<libInit, grun, notGw>>

\* Lines 41-44: the 30 s wait for mt5.initialize is over.
GwConnectTimedOut ==
    /\ gcall.at = "connect"
    /\ gfut = "pending"
    /\ gcall.waited >= InitTimeout
    /\ gconnected' = FALSE
    /\ grun' = GwAbandoned(grun)
    /\ GwInitResult(FALSE, GwCancelled(gq))
    /\ UNCHANGED <<libInit, notGw>>

\* Lines 79-83: mt5.initialize returned True; ensure_symbol goes to the executor.
GwConnectOk ==
    /\ gcall.at = "connect"
    /\ gfut = "true"
    /\ GwSubmit(gq, "ensure_symbol", "symbol", FALSE)
    /\ UNCHANGED <<gconnected, libInit, grun, notGw>>

\* Lines 80-90: ensure_symbol returned; connected is set, terminal_info is asked.
GwSymbolDone ==
    /\ gcall.at = "symbol"
    /\ gfut = "value"
    /\ gconnected' = TRUE
    /\ GwSubmit(gq, "mt5.terminal_info", "info", FALSE)
    /\ UNCHANGED <<libInit, grun, notGw>>

\* Lines 84-90: the 10 s wait for ensure_symbol is over; initialize goes on.
GwSymbolTimedOut ==
    /\ gcall.at = "symbol"
    /\ gfut = "pending"
    /\ gcall.waited >= SymbolTimeout
    /\ gconnected' = TRUE
    /\ grun' = GwAbandoned(grun)
    /\ GwSubmit(GwCancelled(gq), "mt5.terminal_info", "info", FALSE)
    /\ UNCHANGED <<libInit, notGw>>

\* Lines 90-95: terminal_info returned; initialize returns True.
GwInfoDone ==
    /\ gcall.at = "info"
    /\ gfut = "value"
    /\ GwInitResult(TRUE, gq)
    /\ UNCHANGED <<gconnected, libInit, grun, notGw>>

\* Lines 92-95: the 5 s wait for terminal_info is over (caught, logged).
GwInfoTimedOut ==
    /\ gcall.at = "info"
    /\ gfut = "pending"
    /\ gcall.waited >= InfoTimeout
    /\ grun' = GwAbandoned(grun)
    /\ GwInitResult(TRUE, GwCancelled(gq))
    /\ UNCHANGED <<gconnected, libInit, notGw>>

\* Lines 108-120, 139-146, 162-178, 187-199: the method's native call returned.
\* This await has no wait_for around it.
GwNativeDone ==
    /\ gcall.at = "native"
    /\ gfut \in {"value", "null"}
    /\ GwReturn(gq, GwResult(gcall.op, gfut))
    /\ UNCHANGED <<gconnected, libInit, grun, notGw>>

\* Line 99: shutdown() is called; mt5.shutdown goes to the executor, awaited
\* without a timeout.
GwShutdown ==
    /\ gcall.at = "ready"
    /\ gq' = Append(gq, [fn |-> "mt5.shutdown", awaited |-> TRUE])
    /\ gcall' = [op |-> "shutdown", at |-> "closing", waited |-> 0, failed |-> FALSE]
    /\ gfut' = "pending"
    /\ UNCHANGED <<gconnected, libInit, grun, gret, ghist, notGw>>

\* GwShutdownDone without line 100: the flag is left as it was.
GwShutdownDone_KeepsFlag ==
    /\ gcall.at = "closing"
    /\ gfut = "value"
    /\ GwReturn(gq, "None")
    /\ UNCHANGED <<gconnected, libInit, grun, notGw>>

\* Lines 99-101: mt5.shutdown returned; connected is cleared, shutdown returns.
GwShutdownDone ==
    /\ gcall.at = "closing"
    /\ gfut = "value"
    /\ gconnected' = FALSE
    /\ GwReturn(gq, "None")
    /\ UNCHANGED <<libInit, grun, notGw>>

\* The executor's only thread takes the oldest work item.
GwWorkerStart ==
    /\ grun = NoWork
    /\ gq # <<>>
    /\ grun' = Head(gq)
    /\ gq' = Tail(gq)
    /\ UNCHANGED <<gconnected, libInit, gcall, gfut, gret, ghist, notGw>>

\* The native call returns, after whatever time it took; its result resolves the
\* future if the caller still waits for it.
GwWorkerFinish ==
    /\ grun # NoWork
    /\ \E out \in GwOutcomes(grun.fn, libInit) :
         /\ gfut' = IF grun.awaited THEN out ELSE gfut
         /\ libInit' = CASE grun.fn = "mt5.initialize" -> out = "true"
                          [] grun.fn = "mt5.shutdown" -> FALSE
                          [] OTHER -> libInit
    /\ grun' = NoWork
    /\ UNCHANGED <<gconnected, gq, gcall, gret, ghist, notGw>>

\* Time passes while the caller waits: InfoTimeout seconds a step, counted up to
\* the longest timeout.
GwTick ==
    /\ gcall.at # "ready"
    /\ gfut = "pending"
    /\ gcall.waited < InitTimeout
    /\ gcall' = [gcall EXCEPT !.waited = @ + InfoTimeout]
    /\ UNCHANGED <<gconnected, libInit, gq, grun, gfut, gret, ghist, notGw>>

NextGw ==
    \/ GwCall
    \/ GwConnectFailed
    \/ GwConnectTimedOut
    \/ GwConnectOk
    \/ GwSymbolDone
    \/ GwSymbolTimedOut
    \/ GwInfoDone
    \/ GwInfoTimedOut
    \/ GwNativeDone
    \/ GwShutdown
    \/ GwShutdownDone
    \/ GwWorkerStart
    \/ GwWorkerFinish
    \/ GwTick

SpecGw == Init /\ [][NextGw]_vars

\* The event loop resumes a coroutine whose future is resolved or whose timeout is
\* due, the executor's thread takes up queued work, and the clock advances. Nothing
\* makes a native call return: GwWorkerFinish is under no fairness.
GwResume ==
    \/ GwConnectFailed
    \/ GwConnectTimedOut
    \/ GwConnectOk
    \/ GwSymbolDone
    \/ GwSymbolTimedOut
    \/ GwInfoDone
    \/ GwInfoTimedOut
    \/ GwNativeDone
    \/ GwShutdownDone

FairGw ==
    /\ SpecGw
    /\ WF_vars(GwResume)
    /\ WF_vars(GwWorkerStart)
    /\ WF_vars(GwTick)

\* ---------------------------------------------------- gateway methods: claims
\* C18: a caller inside a gateway method eventually has its result or failure.
C18_CallerReturns == (gcall.at # "ready") ~> (gcall.at = "ready")

\* The unavailable value of a gateway method.
Unavailable(op) == IF op = "get_historical_data" THEN "empty_frame" ELSE "None"

\* C19: a gateway method whose initialize() attempt failed returns its unavailable
\* value: None for price, deals and positions, an empty frame for bars.
C19_UnavailableAfterFailedInit ==
    [][(/\ gcall.op \in GatewayOps \ {"initialize"}
        /\ gcall.at # "ready" /\ gcall'.at = "ready"
        /\ (gcall.failed \/ gcall.at = "connect"))
           => gret' = Unavailable(gcall.op)]_vars

\* C22: once shutdown() has returned, be it the first call or one right after
\* another shutdown(), from any state: the manager is in the one Disconnected state
\* (flag cleared, no library session, nothing queued or running) and the call
\* returned None, no error.
C22_ShutdownIdempotent ==
    (gcall.at = "ready" /\ ghist[2] = "shutdown") =>
        /\ ~gconnected
        /\ ~libInit
        /\ gq = <<>>
        /\ grun = NoWork
        /\ gret = "None"

C22_Witness ==
    /\ gcall.at = "ready"
    /\ ghist = <<"shutdown", "shutdown">>
    /\ ~gconnected

\* ------------------------------------------------ service provider, by step
\* Lines 342-346: common_paths, by place in the list, and the terminal each holds.
CommonPaths == 1..3
VenueOf(i) == IF i = 1 THEN "oanda" ELSE "other"

\* Line 361: for i in range(30)
PollLimit == 30

\* Lines 325-326: target_path.lower() in info.path.lower(), for the install path of
\* the terminal the session is connected to.
IsTarget(venue) == venue = "oanda"

\* The machine the process runs on: which of the known paths hold a terminal, and
\* which terminals mt5.initialize() without a path can attach to (a running one, or
\* the one the library finds on its own).
ProvEnvironment ==
    /\ prov.at = "new"
    /\ \E inst \in SUBSET CommonPaths, att \in SUBSET {"oanda", "other"} :
         penv' = [installed |-> inst, attachable |-> att]
    /\ prov' = At("idle", 1, 0)
    /\ UNCHANGED <<psession, preal, pservice, pret, pconnect, notProv>>

\* Lines 312-313: a service was adopted before.
ProvCached ==
    /\ prov.at = "idle"
    /\ pservice # "none"
    /\ pret' = pservice
    /\ UNCHANGED <<penv, prov, psession, preal, pservice, pconnect, notProv>>

\* Lines 316-317: real_service = MT5Service(); initialize() is awaited.
ProvStart ==
    /\ prov.at = "idle"
    /\ pservice = "none"
    /\ preal' = FALSE
    /\ pconnect' = "none"
    /\ prov' = At("initialize", 1, 0)
    /\ UNCHANGED <<penv, psession, pservice, pret, notProv>>

\* Lines 317-320: initialize() returned True, the library attached to a terminal.
ProvInitOk ==
    /\ prov.at = "initialize"
    /\ \E v \in penv.attachable : psession' = v
    /\ preal' = TRUE
    /\ pconnect' = "ok"
    /\ prov' = At("verify", 1, 0)
    /\ UNCHANGED <<penv, pservice, pret, notProv>>

\* Lines 317, 339-350: initialize() returned False.
ProvInitFailed ==
    /\ prov.at = "initialize"
    /\ psession' = "none"
    /\ preal' = FALSE
    /\ pconnect' = "failed"
    /\ prov' = At("launch", 1, 0)
    /\ UNCHANGED <<penv, pservice, pret, notProv>>

\* Lines 326-329: the terminal's path holds the target path; the service is adopted.
ProvVerifyOk ==
    /\ prov.at = "verify"
    /\ IsTarget(psession)
    /\ pservice' = "real"
    /\ pret' = "real"
    /\ prov' = At("idle", 1, 0)
    /\ UNCHANGED <<penv, psession, preal, pconnect, notProv>>

\* Lines 330-332: another terminal; real_service.shutdown(), then auto-launch.
ProvVerifyMismatch ==
    /\ prov.at = "verify"
    /\ ~IsTarget(psession)
    /\ psession' = "none"
    /\ preal' = FALSE
    /\ prov' = At("launch", 1, 0)
    /\ UNCHANGED <<penv, pservice, pret, pconnect, notProv>>

\* Lines 320-321, 334-335: terminal_info returned None, info.path raised; the
\* exception is caught and auto-launch follows, the session left as it is.
ProvVerifyError ==
    /\ prov.at = "verify"
    /\ prov' = At("launch", 1, 0)
    /\ UNCHANGED <<penv, psession, preal, pservice, pret, pconnect, notProv>>

\* Lines 350-351: no terminal at this path.
ProvSkipPath ==
    /\ prov.at = "launch"
    /\ prov.i \in CommonPaths \ penv.installed
    /\ prov' = At("launch", prov.i + 1, 0)
    /\ UNCHANGED <<penv, psession, preal, pservice, pret, pconnect, notProv>>

\* Lines 351-358: mt5.initialize(path=path) launched the terminal at this path.
ProvLaunchOk ==
    /\ prov.at = "launch"
    /\ prov.i \in penv.installed
    /\ psession' = VenueOf(prov.i)
    /\ prov' = At("poll", prov.i, 0)
    /\ UNCHANGED <<penv, preal, pservice, pret, pconnect, notProv>>

\* Lines 356, 376-377: mt5.initialize(path=path) returned False.
ProvLaunchFailed ==
    /\ prov.at = "launch"
    /\ prov.i \in penv.installed
    /\ psession' = "none"
    /\ prov' = At("launch", prov.i + 1, 0)
    /\ UNCHANGED <<penv, preal, pservice, pret, pconnect, notProv>>

\* Lines 361-367: the terminal is not connected to its server yet; sleep a second.
ProvPoll ==
    /\ prov.at = "poll"
    /\ prov.polls < PollLimit
    /\ prov' = At("poll", prov.i, prov.polls + 1)
    /\ UNCHANGED <<penv, psession, preal, pservice, pret, pconnect, notProv>>

\* Lines 362-363, 369-370: terminal_info returned None (the terminal is gone, or
\* the call failed); info.connected raises AttributeError, which nothing in
\* get_service catches.
ProvPollRaises ==
    /\ prov.at = "poll"
    /\ pret' = "raised"
    /\ prov' = At("idle", 1, 0)
    /\ UNCHANGED <<penv, psession, preal, pservice, pconnect, notProv>>

\* Lines 363-375: the terminal is connected to its server, or the polls are used
\* up; the service is adopted and marked connected.
ProvAdopt ==
    /\ prov.at = "poll"
    /\ pservice' = "real"
    /\ preal' = TRUE
    /\ pret' = "real"
    /\ prov' = At("idle", 1, 0)
    /\ UNCHANGED <<penv, psession, pconnect, notProv>>

\* Lines 386-388: no path is left; real_service is returned, not adopted.
ProvGiveUp ==
    /\ prov.at = "launch"
    /\ prov.i \notin CommonPaths
    /\ pret' = "real"
    /\ prov' = At("idle", 1, 0)
    /\ UNCHANGED <<penv, psession, preal, pservice, pconnect, notProv>>

NextProv ==
    \/ ProvEnvironment
    \/ ProvCached
    \/ ProvStart
    \/ ProvInitOk
    \/ ProvInitFailed
    \/ ProvVerifyOk
    \/ ProvVerifyMismatch
    \/ ProvVerifyError
    \/ ProvSkipPath
    \/ ProvLaunchOk
    \/ ProvLaunchFailed
    \/ ProvPoll
    \/ ProvPollRaises
    \/ ProvAdopt
    \/ ProvGiveUp

SpecProv == Init /\ [][NextProv]_vars

\* --------------------------------------------------- service provider: claims
\* C20: the service get_service has adopted, or returned as connected, holds a
\* session to the expected venue.
C20_VenueVerified ==
    (prov.at = "idle" /\ pret = "real" /\ preal) => IsTarget(psession)

\* C30: a get_service whose connect failed ends by returning, never by raising:
\* from the poll of a launched terminal, after at most PollLimit polls, with the
\* service marked connected; from the end of the path list, with the service not
\* connected.
C30_DiscoveryEnds ==
    [][(prov.at \in {"launch", "poll"} /\ prov'.at = "idle" /\ pconnect = "failed")
          => /\ pret' = "real"
             /\ (prov.at = "poll") => (preal' /\ prov.polls <= PollLimit)
             /\ (prov.at = "launch") => ~preal']_vars

\* ------------------------------------------------------ symbol selection
\* Instruments a terminal lists, bounded.
MaxInstruments == 2

\* sub in name: sub is a run of consecutive characters of name.
Contains(sub, name) ==
    \E i \in 0..(Len(name) - Len(sub)) : SubSeq(name, i + 1, i + Len(sub)) = sub

\* Instrument names brokers use for the pair, and names of other pairs.
InstrumentNames ==
    {USDJPY,
     <<"U", "S", "D", "J", "P", "Y", "m">>,
     <<"u", "s", "d", "j", "p", "y">>,
     <<"U", "S", "D", "/", "J", "P", "Y">>,
     <<"E", "U", "R", "U", "S", "D">>,
     <<"E", "U", "R", "J", "P", "Y">>}

\* Line 59: "USDJPY" in s.name and "JPY" in s.name
IsMatch(name) == Contains(USDJPY, name) /\ Contains(<<"J", "P", "Y">>, name)

\* Lines 51-77: ensure_symbol(sym) against the instrument list symbols, select
\* being the names symbol_select succeeds for.
ensure_symbol(sym, symbols, select) ==
    IF sym \in select
    THEN sym
    ELSE LET hits == {i \in DOMAIN symbols : IsMatch(symbols[i])}
             first == CHOOSE i \in hits : \A j \in hits : i <= j
         IN  IF hits = {} THEN sym
             ELSE IF symbols[first] \in select THEN symbols[first] ELSE sym

\* The process starts on a machine whose terminal lists some instruments, each
\* name once, of which some can be selected; mt5.initialize has returned True
\* (lines 32-36).
SymConnect ==
    /\ mat \in {"new", "returned", "timedout"}
    /\ \E n \in 0..MaxInstruments :
         \E list \in [1..n -> InstrumentNames] :
            /\ \A i, j \in 1..n : i # j => list[i] # list[j]
            /\ instruments' = list
            /\ \E sel \in SUBSET {list[i] : i \in 1..n} : selectable' = sel
    /\ msymbol' = USDJPY
    /\ mconnected' = FALSE
    /\ mat' = "connected"
    /\ UNCHANGED notSym

\* Lines 79-95: ensure_symbol returned within its 10 s; initialize returns True.
SymResolved ==
    /\ mat = "connected"
    /\ msymbol' = ensure_symbol(msymbol, instruments, selectable)
    /\ mconnected' = TRUE
    /\ mat' = "returned"
    /\ UNCHANGED <<instruments, selectable, notSym>>

\* Lines 84-95: the wait for ensure_symbol timed out; the symbol is kept and
\* initialize returns True.
SymTimedOut ==
    /\ mat = "connected"
    /\ mconnected' = TRUE
    /\ mat' = "timedout"
    /\ UNCHANGED <<instruments, selectable, msymbol, notSym>>

NextSym ==
    \/ SymConnect
    \/ SymResolved
    \/ SymTimedOut

SpecSym == Init /\ [][NextSym]_vars

\* ------------------------------------------------- symbol selection: claims
\* str.lower(), character by character.
LowerChar(c) ==
    CASE c = "U" -> "u" [] c = "S" -> "s" [] c = "D" -> "d" [] c = "J" -> "j"
      [] c = "P" -> "p" [] c = "Y" -> "y" [] c = "E" -> "e" [] c = "R" -> "r"
      [] OTHER -> c
Lower(name) == [i \in DOMAIN name |-> LowerChar(name[i])]

\* Both currency codes of the pair USDJPY are in the name, whatever the case.
HasBothCodes(name) ==
    /\ Contains(<<"u", "s", "d">>, Lower(name))
    /\ Contains(<<"j", "p", "y">>, Lower(name))

Candidates == {instruments[i] : i \in {j \in DOMAIN instruments : HasBothCodes(instruments[j])}}

\* C21: after initialize() resolved the symbol, the configured symbol not being
\* selectable: if the terminal lists instruments holding both currency codes
\* (case-insensitively) and each can be selected, the manager's symbol is one of
\* them; if it lists none, the symbol is the configured one; initialize() succeeded.
C21_SymbolResolved ==
    (mat = "returned" /\ USDJPY \notin selectable) =>
        /\ mconnected
        /\ (Candidates # {} /\ Candidates \subseteq selectable) => msymbol \in Candidates
        /\ (Candidates = {}) => msymbol = USDJPY

\* ---------------------------------------------------------- trades router
MaxManual == 1      \* trades created through create_trade over a run
MaxPasses == 2      \* sync passes over a run
MaxBatch == 1       \* deals in the batch a pass of this specification fetches
MaxStamp == 0       \* broker times 0..MaxStamp of the records it fetches

\* str(uuid.uuid4()): the n-th value drawn; it has hyphens, so it is the string of
\* no integer.
Uuid(n) == "uuid-" \o Str(n)

\* Request bodies (TradeLogCreate): an open trade and a closed one.
TradeBodies ==
    {[direction |-> "LONG", entry_price |-> 150, position_size |-> 1,
      exit_price |-> x, profit_loss_amount |-> x, trade_duration_minutes |-> x] :
        x \in {None, 7}}

\* Lines 192-202 (and 120-133): the body's fields assigned to the row.
WithBody(row, body) ==
    [row EXCEPT
        !.symbol = "USDJPY",
        !.direction = body.direction,
        !.entry_price = body.entry_price,
        !.position_size = body.position_size,
        !.exit_price = body.exit_price,
        !.profit_loss_pips = None,
        !.profit_loss_amount = body.profit_loss_amount,
        !.trade_duration_minutes = body.trade_duration_minutes]

\* Lines 188, 223: existing_trade.position_id or existing_trade.entry_ticket, an
\* optional string being true when it is neither None nor empty.
IsSynced(row) ==
    \/ (row.position_id # NoneStr /\ row.position_id # "")
    \/ (row.entry_ticket # NoneStr /\ row.entry_ticket # "")

\* The open-position loop over a whole snapshot, from place i on: lines 252-288.
RECURSIVE SyncPositions(_, _, _, _)
SyncPositions(led, list, i, t) ==
    IF i > Len(list) THEN led
    ELSE SyncPositions(ApplyPosition(led, list[i], t), list, i + 1, t)

\* SyncPass closing, at price 0, every open row no fetched record is keyed to.
SyncPass_AutoClose(led, ps, ds, t) ==
    LET after == SyncDeals(SyncPositions(led, ps, 1, t), ds, 1)
        keys == {PositionTradeId(ps[i]) : i \in DOMAIN ps}
                    \cup {DealTradeId(ds[i]) : i \in DOMAIN ds}
    IN  [id \in DOMAIN after |->
            IF after[id].exit_price = None /\ id \notin keys
            THEN [after[id] EXCEPT !.exit_price = 0] ELSE after[id]]

\* Lines 243-372: what a pass that fetched ps and ds commits, the clock reading t
\* while the positions are processed.
SyncPass(led, ps, ds, t) == SyncDeals(SyncPositions(led, ps, 1, t), ds, 1)

\* Lines 117-172: create_trade.
LedgerCreate ==
    /\ nuuid < MaxManual
    /\ \E body \in TradeBodies, t \in 0..MaxTime :
         ledger' = Put(ledger, WithBody([TradeLog(Uuid(nuuid + 1)) EXCEPT !.timestamp = t],
                                        body))
    /\ nuuid' = nuuid + 1
    /\ lresp' = 200
    /\ lreq' = Request("create", Uuid(nuuid + 1), <<>>, <<>>)
    /\ UNCHANGED <<npass, synced, notLedger>>

\* update_trade without the check of lines 187-189.
LedgerUpdate_Unguarded ==
    /\ \E id \in DOMAIN ledger \cup {"0"}, body \in TradeBodies :
         /\ lreq' = Request("update", id, <<>>, <<>>)
         /\ IF id \notin DOMAIN ledger
            THEN lresp' = 404 /\ ledger' = ledger
            ELSE lresp' = 200 /\ ledger' = Put(ledger, WithBody(ledger[id], body))
    /\ UNCHANGED <<nuuid, npass, synced, notLedger>>

\* Lines 174-207: update_trade.
LedgerUpdate ==
    /\ \E id \in DOMAIN ledger \cup {"0"}, body \in TradeBodies :
         /\ lreq' = Request("update", id, <<>>, <<>>)
         /\ IF id \notin DOMAIN ledger
            THEN lresp' = 404 /\ ledger' = ledger
            ELSE IF IsSynced(ledger[id])
                 THEN lresp' = 403 /\ ledger' = ledger
                 ELSE lresp' = 200 /\ ledger' = Put(ledger, WithBody(ledger[id], body))
    /\ UNCHANGED <<nuuid, npass, synced, notLedger>>

\* Lines 209-229: delete_trade.
LedgerDelete ==
    /\ \E id \in DOMAIN ledger \cup {"0"} :
         /\ lreq' = Request("delete", id, <<>>, <<>>)
         /\ IF id \notin DOMAIN ledger
            THEN lresp' = 404 /\ ledger' = ledger
            ELSE IF IsSynced(ledger[id])
                 THEN lresp' = 403 /\ ledger' = ledger
                 ELSE lresp' = 200 /\ ledger' = [k \in DOMAIN ledger \ {id} |-> ledger[k]]
    /\ UNCHANGED <<nuuid, npass, synced, notLedger>>

\* Lines 231-375: a sync pass that commits.
LedgerSync ==
    /\ npass < MaxPasses
    /\ \E ps \in PositionLists, n \in 0..MaxBatch, t \in MaxTime..(MaxTime + MaxElapsed) :
         \E ds \in DealLists(n) :
            /\ \A i \in DOMAIN ps : ps[i].time <= MaxStamp
            /\ \A i \in DOMAIN ds : ds[i].time <= MaxStamp
            /\ ledger' = SyncPass(ledger, get_positions(ps), get_deals(ds), t)
            /\ synced' = synced \cup
                            (({PositionTradeId(ps[i]) : i \in DOMAIN ps}
                                \cup {DealTradeId(ds[i]) : i \in DOMAIN ds})
                             \cap DOMAIN ledger')
            /\ lreq' = Request("sync", NoneStr, get_positions(ps), get_deals(ds))
    /\ npass' = npass + 1
    /\ lresp' = 200
    /\ UNCHANGED <<nuuid, notLedger>>

\* Lines 244-245, 296-297, 377-379: a sync pass that fails; nothing is committed.
LedgerSyncFails ==
    /\ npass < MaxPasses
    /\ npass' = npass + 1
    /\ lresp' = ExceptHandler(UnavailableStatus)
    /\ lreq' = Request("sync", NoneStr, <<>>, <<>>)
    /\ UNCHANGED <<ledger, nuuid, synced, notLedger>>

NextLedger ==
    \/ LedgerCreate
    \/ LedgerUpdate
    \/ LedgerDelete
    \/ LedgerSync
    \/ LedgerSyncFails

SpecLedger == Init /\ [][NextLedger]_vars

\* --------------------------------------------------- trades router: claims
\* The stable identifier of a fetched record (section 3 of the design): its
\* position_id when it has one, else its ticket.
StableId(rec) ==
    Str(IF "position_id" \in DOMAIN rec THEN rec.position_id ELSE rec.ticket)

SnapshotIds(r) ==
    {StableId(r.positions[i]) : i \in DOMAIN r.positions}
        \cup {StableId(r.deals[i]) : i \in DOMAIN r.deals}

\* Rows created through create_trade.
ManualIds == {Uuid(n) : n \in 1..MaxManual}

C26_ManualOnly ==
    [][/\ (/\ lreq'.op \in {"update", "delete"}
           /\ lreq'.id \in DOMAIN ledger
           /\ IsSynced(ledger[lreq'.id]))
             => (lresp' = 403 /\ ledger' = ledger)
       /\ \A id \in synced' : id \in DOMAIN ledger' /\ IsSynced(ledger'[id])
       /\ (lreq'.op \in {"update", "delete"}) =>
             \A id \in synced : id \in DOMAIN ledger' /\ ledger'[id] = ledger[id]]_vars

\* update_trade or delete_trade was refused on a row a sync pass wrote.
C26_Witness ==
    /\ lreq.op \in {"update", "delete"}
    /\ lreq.id \in synced
    /\ lresp = 403
    /\ \E id \in DOMAIN ledger : id \in ManualIds

\* ----------------------------------------------------------- shared proxy
MaxInstances == 3   \* MT5Service instances constructed over a run

\* Lines 404-435: the attributes a ServiceProxy has; the class defines no
\* __getattr__.
ProxyAttributes ==
    {"initialize", "shutdown", "get_current_price", "get_historical_data",
     "get_deals", "get_positions"}

\* The attributes the application calls on mt5_service: the methods above, and
\* is_market_open (routers/sessions.py line 22).
CalledAttributes == ProxyAttributes \cup {"is_market_open"}

\* A coroutine calls mt5_service.<name>(): the attribute lookup, then lines 409-435
\* up to the first await that suspends. get_service returns a cached service at once
\* (lines 312-313); otherwise it constructs an MT5Service and awaits its initialize
\* (lines 316-317).
PxCall(t) ==
    /\ xtask[t].at = "idle"
    /\ \E name \in CalledAttributes :
         CASE name \notin ProxyAttributes ->
                /\ xtask' = [xtask EXCEPT ![t] = Task(name, "idle", 0, "AttributeError")]
                /\ UNCHANGED <<ximpl, xinst>>
           [] name = "shutdown" ->
                /\ xtask' = [xtask EXCEPT ![t] =
                                IF ximpl = 0 THEN Task(name, "idle", 0, "None")
                                ELSE Task(name, "method", 0, "none")]
                /\ UNCHANGED <<ximpl, xinst>>
           [] ximpl # 0 ->
                /\ xtask' = [xtask EXCEPT ![t] = Task(name, "method", 0, "none")]
                /\ UNCHANGED <<ximpl, xinst>>
           [] xservice # 0 ->
                /\ ximpl' = xservice
                /\ xtask' = [xtask EXCEPT ![t] = Task(name, "method", 0, "none")]
                /\ UNCHANGED xinst
           [] OTHER ->
                /\ xinst < MaxInstances
                /\ xinst' = xinst + 1
                /\ xtask' = [xtask EXCEPT ![t] = Task(name, "discovering", xinst + 1, "none")]
                /\ UNCHANGED ximpl
    /\ UNCHANGED <<xservice, notProxy>>

\* Lines 328-329, 373-375, 388 and 411: get_service returns its real_service,
\* adopted as the provider's service or not, and _ensure_impl assigns it to _impl;
\* the coroutine goes on to the method of the implementation.
PxDiscovered(t) ==
    /\ xtask[t].at = "discovering"
    /\ \E adopted \in BOOLEAN :
         xservice' = IF adopted THEN xtask[t].inst ELSE xservice
    /\ ximpl' = xtask[t].inst
    /\ xtask' = [xtask EXCEPT ![t].at = "method"]
    /\ UNCHANGED <<xinst, notProxy>>

\* Lines 362-363, 369-370: terminal_info returned None while get_service polled;
\* info.connected raises out of get_service and of the proxy method.
PxDiscoveryRaises(t) ==
    /\ xtask[t].at = "discovering"
    /\ xtask' = [xtask EXCEPT ![t] = Task(xtask[t].op, "idle", 0, "AttributeError")]
    /\ UNCHANGED <<ximpl, xservice, xinst, notProxy>>

\* Lines 415-435: the method of the implementation returns.
PxMethodDone(t) ==
    /\ xtask[t].at = "method"
    /\ xtask' = [xtask EXCEPT ![t] = Task(xtask[t].op, "idle", 0, "returned")]
    /\ UNCHANGED <<ximpl, xservice, xinst, notProxy>>

NextProxy ==
    \/ \E t \in Tasks : PxCall(t)
    \/ \E t \in Tasks : PxDiscovered(t)
    \/ \E t \in Tasks : PxDiscoveryRaises(t)
    \/ \E t \in Tasks : PxMethodDone(t)

SpecProxy == Init /\ [][NextProxy]_vars

\* ---------------------------------------------------- shared proxy: claims
\* C23: a call of is_market_open on the gateway object the API layer uses comes to
\* a boolean, never to an error.
C23_MarketOpenBoolean ==
    \A t \in Tasks :
       (xtask[t].op = "is_market_open" /\ xtask[t].at = "idle")
          => xtask[t].ret \in {"true", "false"}

\* C29: at no time are two discoveries in progress, and once the proxy has adopted
\* an implementation it is never replaced by another instance.
C29_OneDiscovery ==
    [][/\ \A t1, t2 \in Tasks :
            (xtask'[t1].at = "discovering" /\ xtask'[t2].at = "discovering") => t1 = t2
       /\ (ximpl # 0) => ximpl' = ximpl]_vars

\* ------------------------------------------------ connection and lane: claims
Range(q) == {q[i] : i \in DOMAIN q}

\* C8: within RetryInterval after a failed initialize(), no initialize() call makes
\* a native connect attempt.
C8_BackoffNoConnect ==
    [][(failedAt # None /\ clock - failedAt < RetryInterval)
         => nconnect' = nconnect]_vars

\* C9: no two native calls are in progress at once: the executor's thread and the
\* event-loop thread are never both inside the terminal's API.
C9_OneNativeCallAtATime == ~(running # NoCall /\ direct # NoCall)

\* C10 as stated: when a call submitted later has started, every call submitted
\* before it has finished.
C10_FinishedBeforeLaterStarts ==
    \A i, j \in DOMAIN submitted :
        (i < j /\ submitted[j] \in Range(started))
            => submitted[i] \in Range(finished)

\* A call that left the queue without starting: its caller's timeout cancelled it.
Dropped(id) ==
    /\ id \in Range(submitted)
    /\ id \notin Range(started)
    /\ \A k \in DOMAIN lane : lane[k].id # id

\* C10 as amended: when a call submitted later has started, every call submitted
\* before it has finished or was cancelled before it started, and never runs.
C10_SubmissionOrder ==
    \A i, j \in DOMAIN submitted :
        (i < j /\ submitted[j] \in Range(started))
            => (submitted[i] \in Range(finished) \/ Dropped(submitted[i]))

\* Two callers' calls were queued behind a running one and ran in submission order:
\* the third call is running, the first two have finished.
C10_Witness ==
    /\ Len(finished) >= 2
    /\ running # NoCall
    /\ running.id = submitted[3]
    /\ finished[1] = submitted[1] /\ finished[2] = submitted[2]
    /\ lane # <<>>

\* C13: a gateway fetch whose native call failed (returned None) on a connected
\* session returns None, the unavailable value, to its caller.
C13_FailedFetchUnavailable ==
    [][\A c \in Callers :
          (cpc[c].at = "fetch_error" /\ cpc'[c].at = "ready")
              => cres'[c].ret = "None"]_vars

\* C28: when a caller stops waiting for a native connect that is running, the
\* caller gets false (None from a fetch) with connected False and the native call
\* goes on running; and the executor starts a call only when every call it started
\* before has finished, so nothing submitted later starts before that call returns.
C28_TimeoutCancelsOnlyWait ==
    [][/\ \A c \in Callers :
            (/\ cpc[c].at = "connect" /\ cres[c].fut = "pending"
             /\ running.id = cpc[c].id /\ cpc'[c].at = "ready")
               => /\ ~connected'
                  /\ cres'[c].ret = IF cpc[c].op = "initialize" THEN "false" ELSE "None"
                  /\ running' = running
       /\ (started' # started) => Range(started) \subseteq Range(finished)]_vars

C28_Witness ==
    /\ running.fn = "mt5.initialize"
    /\ cpc[running.by] = Ready
    /\ cres[running.by].ret = "false"
    /\ ~connected
    /\ lane # <<>>

\* ------------------------------------------------- reconciliation: claims
IsEntry(d) == Get(d, "entry") = 0
IsExit(d) == Get(d, "entry") \in {1, 2}
ValidVolume(r) == Get(r, "volume") # None /\ Get(r, "volume") # 0

\* C1: a pass run again against the same positions and deals snapshot, on the ledger
\* the first run committed, commits a ledger equal to it row for row, field for field.
C1_Idempotent == [][(pc = "commit" /\ rerun) => db' = db]_vars

\* C2: the deal loop over the reversed batch ends in the same ledger as the deal loop
\* over the batch as fetched.
C2_OrderIndependent ==
    (pc = "deals" /\ idx = 1)
        => SyncDeals(sess, deals, 1) = SyncDeals(sess, Reverse(deals), 1)

\* The row C3 expects from entry deal E and exit deal X of one identifier.
EntryExitRow(E, X) ==
    [trade_id |-> DealTradeId(E), position_id |-> Str(E.position_id),
     entry_ticket |-> Str(E.ticket), exit_ticket |-> Str(X.ticket),
     timestamp |-> E.time, symbol |-> "USDJPY", direction |-> Direction(E.type),
     entry_price |-> E.price, exit_price |-> X.price, position_size |-> E.volume,
     profit_loss_pips |-> None,
     profit_loss_amount |-> X.profit + X.swap + X.commission,
     trade_duration_minutes |-> Minutes(X.time - E.time)]

\* Places e and x of the batch hold the only deals of one identifier, a valid-volume
\* entry and a later exit, and the pass met no row and no open position of it.
EntryExitCase(e, x) ==
    LET id == DealTradeId(deals[e])
    IN  /\ IsEntry(deals[e]) /\ ValidVolume(deals[e])
        /\ IsExit(deals[x]) /\ DealTradeId(deals[x]) = id
        /\ deals[e].time < deals[x].time
        /\ id \notin DOMAIN db
        /\ \A k \in DOMAIN positions : PositionTradeId(positions[k]) # id
        /\ \A k \in DOMAIN deals \ {e, x} : DealTradeId(deals[k]) # id

\* C3: from a ledger with no row for X, a pass over a batch with one valid-volume
\* entry deal and one later exit deal for X ends with the one row for X built from
\* the two deals (entry price, exit price, profit + swap + commission, whole minutes
\* between them), the same row whichever of the two comes first in the batch.
C3_EntryExitRow ==
    pc = "commit" =>
        \A e, x \in DOMAIN deals :
            EntryExitCase(e, x) =>
                /\ DealTradeId(deals[e]) \in DOMAIN sess
                /\ sess[DealTradeId(deals[e])] = EntryExitRow(deals[e], deals[x])

\* C3's case with the exit deal ahead of the entry deal, two time units apart, on a
\* ledger that already holds another row.
C3_Witness ==
    /\ pc = "commit"
    /\ db # <<>>
    /\ \E e, x \in DOMAIN deals :
         /\ EntryExitCase(e, x)
         /\ x < e
         /\ sess[DealTradeId(deals[e])].trade_duration_minutes = 1

\* C4: processing an open position never clears an exit_price already set on a row.
C4_PositionKeepsExit ==
    [][(pc = "positions" /\ idx <= Len(positions))
         => \A id \in DOMAIN sess :
               sess[id].exit_price # None
                  => (id \in DOMAIN sess' /\ sess'[id].exit_price # None)]_vars

\* The last exit deal of trade id before place i of the batch, or 0.
LastExitBefore(i, id) ==
    LET js == {j \in 1..(i - 1) : IsExit(deals[j]) /\ DealTradeId(deals[j]) = id}
    IN  IF js = {} THEN 0 ELSE CHOOSE j \in js : \A k \in js : k <= j

\* C5: an exit deal whose time is not later than the time of the exit deal that set
\* the row's exit_price leaves exit_price as it is.
C5_OnlyLaterExitOverwrites ==
    [][(pc = "deals" /\ idx <= Len(deals) /\ IsExit(deals[idx]))
         => LET id == DealTradeId(deals[idx])
                j == LastExitBefore(idx, id)
            IN  (/\ j # 0
                 /\ ValidVolume(deals[idx]) /\ ValidVolume(deals[j])
                 /\ id \in DOMAIN sess
                 /\ sess[id].exit_ticket = Str(deals[j].ticket)
                 /\ deals[idx].time <= deals[j].time)
                    => sess'[id].exit_price = sess[id].exit_price]_vars

\* C6: a deal of volume 0 creates no row and changes no field of any row.
C6_ZeroVolumeIgnored ==
    [][(pc = "deals" /\ idx <= Len(deals) /\ ~ValidVolume(deals[idx]))
         => sess' = sess]_vars

\* C7: an open position and the deals of that same broker position (the deals'
\* position_id is the position's identifier) end the pass in one ledger row.
C7_OneRowPerPosition ==
    pc = "commit" =>
        \A i \in DOMAIN positions :
            LET mine == {j \in DOMAIN deals :
                            /\ deals[j].position_id = term.positions[i].identifier
                            /\ IsEntry(deals[j]) /\ ValidVolume(deals[j])}
                ids == {PositionTradeId(positions[i])}
                          \cup {DealTradeId(deals[j]) : j \in mine}
            IN  (ValidVolume(positions[i]) /\ mine # {})
                    => Cardinality(ids \cap DOMAIN sess) = 1

\* C12: a pass whose position fetch or deal fetch returned None writes nothing, and
\* answers with a status that is neither the status of a pass that ran nor the
\* status of any other failure.
C12_UnavailableDistinct ==
    [][(PositionsUnavailable \/ DealsUnavailable)
         => (sess' = db /\ db' = db /\ resp' \notin {200, ExceptHandler(None)})]_vars

\* The records C14 names: an entry deal of null or zero volume, and an exit deal that
\* meets no row in ledger led and no entry deal of its identifier in the batch.
InvalidEntry(d) == IsEntry(d) /\ ~ValidVolume(d)
OrphanExit(led, batch, d) ==
    /\ IsExit(d)
    /\ DealTradeId(d) \notin DOMAIN led
    /\ EntryDealIndex(batch, Get(d, "position_id")) = 0

\* The batch without them.
DataValid(led, batch) ==
    SelectSeq(batch, LAMBDA d : ~InvalidEntry(d) /\ ~OrphanExit(led, batch, d))

\* C14: the invalid records of a batch change nothing, for themselves or for the
\* other records: the deal loop ends in the ledger it ends in over the batch
\* without them.
C14_SkipPerRecord ==
    (pc = "deals" /\ idx = 1 /\ \A i \in DOMAIN deals : IsExit(deals[i]) => ValidVolume(deals[i]))
        => SyncDeals(sess, deals, 1) = SyncDeals(sess, DataValid(sess, deals), 1)

\* profit + swap + commission of the deals at places js of the fetched batch.
RECURSIVE SumPnL(_)
SumPnL(js) ==
    IF js = {} THEN 0
    ELSE LET j == CHOOSE k \in js : TRUE
         IN  deals[j].profit + deals[j].swap + deals[j].commission + SumPnL(js \ {j})

\* The valid-volume exit deals of trade id in the fetched batch.
ExitsOf(id) ==
    {j \in DOMAIN deals :
        IsExit(deals[j]) /\ ValidVolume(deals[j]) /\ DealTradeId(deals[j]) = id}

\* C15: a row closed by several exit deals of one batch carries, as realized profit,
\* the sum of profit + swap + commission over all of them.
C15_PartialClosesSummed ==
    pc = "commit" =>
        \A id \in DOMAIN sess :
            (/\ Cardinality(ExitsOf(id)) >= 2
             /\ \A j \in DOMAIN deals :
                   DealTradeId(deals[j]) = id => ValidVolume(deals[j])
             /\ \E j \in ExitsOf(id) : sess[id].exit_ticket = Str(deals[j].ticket))
                => sess[id].profit_loss_amount = SumPnL(ExitsOf(id))

\* The row of trade id carries the entry side of open position p and no exit price.
RowOfPosition(id, p) ==
    /\ id \in DOMAIN sess
    /\ sess[id].direction = Direction(p.type)
    /\ sess[id].entry_price = p.price_open
    /\ sess[id].position_size = p.volume
    /\ sess[id].timestamp = p.time
    /\ sess[id].entry_ticket = Str(p.ticket)
    /\ sess[id].exit_price = None

\* C16: after a pass over open positions and no deals, each position of non-zero
\* volume has its row under the string of its position identifier, the entry side
\* taken from the position, the exit price null.
C16_PositionRow ==
    (pc = "commit" /\ deals = <<>>) =>
        \A i \in DOMAIN positions :
            ValidVolume(positions[i])
                => RowOfPosition(Str(positions[i].identifier), positions[i])

\* Committed row id is open as the open-position loop wrote it, and the snapshot of
\* the pass in progress holds neither its position nor an exit deal of its identifier.
Vanished(id) ==
    /\ db[id].exit_price = None
    /\ db[id].position_id = NoneStr
    /\ db[id].entry_ticket = id
    /\ \A i \in DOMAIN positions : PositionTradeId(positions[i]) # id
    /\ \A j \in DOMAIN deals : IsExit(deals[j]) => DealTradeId(deals[j]) # id

\* C17: a row created from an open position that is gone from the snapshot, no exit
\* deal of its identifier in the batch, still has a null exit price after the pass.
C17_NeverAutoClosed ==
    pc = "commit" =>
        \A id \in DOMAIN db :
            Vanished(id) => (id \in DOMAIN sess /\ sess[id].exit_price = None)

\* A pass that closed another trade with an exit deal and refreshed the vanished
\* position's row from an entry deal is about to commit.
C17_Witness ==
    /\ pc = "commit"
    /\ \E id \in DOMAIN db :
         /\ Vanished(id)
         /\ \E j \in DOMAIN deals : IsExit(deals[j]) /\ ValidVolume(deals[j])
         /\ \E j \in DOMAIN deals :
              IsEntry(deals[j]) /\ ValidVolume(deals[j]) /\ DealTradeId(deals[j]) = id

\* The records of the fetched snapshot that a pass upserts a row for.
ValidPosition(pos) == Get(pos, "volume") # None /\ Get(pos, "volume") # 0
ValidEntry(deal) == IsEntry(deal) /\ ValidVolume(deal)

C27_ExitDuration ==
    [][(/\ pc = "deals" /\ idx <= Len(deals) /\ idx' = idx + 1
        /\ IsExit(deals[idx])
        /\ DealTradeId(deals[idx]) \in DOMAIN sess')
          => LET row == sess'[DealTradeId(deals[idx])]
                 exit == deals[idx].time
             IN  row.trade_duration_minutes =
                    IF row.timestamp # None /\ row.timestamp < exit
                    THEN Minutes(exit - row.timestamp) ELSE None]_vars

====
